---- MODULE Spec2Model ----
(***************************************************************************)
(* Validation of Polycrate documents: the validation provider (open,       *)
(* change and close events, validations in flight, the diagnostic          *)
(* collection) and the language server's validateFile with the text scans  *)
(* it uses to turn findings into ranges.                                    *)
(*                                                                         *)
(* A string is a sequence of one-character strings, so that trim,          *)
(* startsWith, includes and indexOf are computed on characters as the      *)
(* code computes them.  A document's text is kept as the sequence of its   *)
(* lines, which is what text.split('\n') returns.                           *)
(***************************************************************************)
EXTENDS Integers, Sequences, FiniteSets, TLC

VARIABLES
    text,        \* uri -> the document's lines (TextDocument.getText())
    version,     \* uri -> TextDocument.version, raised by every edit
    isOpen,      \* uri -> the document is open in the editor
    tasks,       \* the validateDocument calls in flight, in the order they started
    collection,  \* diagnosticCollection: uri -> <<>> (no entry) or <<diagnostics>>
    call         \* the last call of a function of the language server, with its result

vars == <<text, version, isOpen, tasks, collection, call>>

-----------------------------------------------------------------------------
(* Characters and the string methods the scans use *)

IsSpace(c) == c \in {" ", "\t"}

RECURSIVE trimStart(_)
trimStart(s) == IF s # <<>> /\ IsSpace(Head(s)) THEN trimStart(Tail(s)) ELSE s

RECURSIVE trimEnd(_)
trimEnd(s) ==
    IF s # <<>> /\ IsSpace(s[Len(s)]) THEN trimEnd(SubSeq(s, 1, Len(s) - 1)) ELSE s

trim(s) == trimEnd(trimStart(s))

startsWith(s, p) == Len(p) <= Len(s) /\ SubSeq(s, 1, Len(p)) = p

includes(s, p) == \E i \in 0..(Len(s) - Len(p)) : SubSeq(s, i + 1, i + Len(p)) = p

\* 0-based index of the first occurrence of p in s, -1 when there is none
indexOf(s, p) ==
    LET hits == {i \in 0..(Len(s) - Len(p)) : SubSeq(s, i + 1, i + Len(p)) = p}
    IN  IF hits = {} THEN -1 ELSE CHOOSE i \in hits : \A j \in hits : i <= j

\* line.length - line.trimStart().length
lineIndentOf(line) == Len(line) - Len(trimStart(line))

\* The element of a one-element set: The({F(x) : x \in {e}}) is F(e) with e
\* evaluated once and named x
The(S) == CHOOSE x \in S : TRUE

-----------------------------------------------------------------------------
(* The literals of the scans *)

DashName == <<"-", " ", "n", "a", "m", "e", ":">>            \* '- name:'
NameKey == <<"n", "a", "m", "e">>
OrganizationKey == <<"o", "r", "g", "a", "n", "i", "z", "a", "t", "i", "o", "n">>
BlocksKey == <<"b", "l", "o", "c", "k", "s">>
FromKey == <<"f", "r", "o", "m">>
KindKey == <<"k", "i", "n", "d">>
ConfigKey == <<"c", "o", "n", "f", "i", "g">>
Colon == <<":">>
ColonLatest == <<":", "l", "a", "t", "e", "s", "t">>         \* ':latest'
AtLatest == <<"@", "l", "a", "t", "e", "s", "t">>            \* '@latest'

-----------------------------------------------------------------------------
(* Ranges.  A lookup returns <<>> for null and <<range>> for a range;       *)
(* a || b is OrElse(a, b).                                                  *)

Range(sl, sc, el, ec) == [sl |-> sl, sc |-> sc, el |-> el, ec |-> ec]

ZeroRange == Range(0, 0, 0, 0)

OrElse(a, b) == IF a # <<>> THEN a ELSE b

\* findTextInDocument: the first line holding searchText, lines numbered from 0
findTextInDocument(lines, searchText) ==
    LET hits == {i \in 1..Len(lines) : includes(lines[i], searchText)}
    IN  IF hits = {} THEN <<>>
        ELSE LET i == CHOOSE k \in hits : \A j \in hits : k <= j
                 index == indexOf(lines[i], searchText)
             IN  <<Range(i - 1, index, i - 1, index + Len(searchText))>>

\* findBlockInDocument: the first line holding both '- name:' and blockName
findBlockInDocument(lines, blockName) ==
    LET hits == {i \in 1..Len(lines) :
                    includes(lines[i], DashName) /\ includes(lines[i], blockName)}
    IN  IF hits = {} THEN <<>>
        ELSE LET i == CHOOSE k \in hits : \A j \in hits : k <= j
             IN  <<Range(i - 1, indexOf(lines[i], DashName), i - 1, Len(lines[i]))>>

\* One iteration of findBlockFieldInDocument's loop on line i (1-based here),
\* from the loop state st = [inTargetBlock, blockIndent, found]
FieldScanStep(lines, blockName, fieldName, st, i) ==
    LET line == lines[i]
        trimmedLine == trim(line)
        lineIndent == lineIndentOf(line)
        key == fieldName \o Colon
    IN  IF startsWith(trimmedLine, DashName) /\ includes(trimmedLine, blockName)
        THEN [st EXCEPT !.inTargetBlock = TRUE, !.blockIndent = lineIndent]
        ELSE LET left == st.inTargetBlock /\ lineIndent <= st.blockIndent
                            /\ startsWith(trimmedLine, DashName)
                 inBlock == st.inTargetBlock /\ ~left
             IN  IF inBlock /\ startsWith(trimmedLine, key)
                 THEN LET fieldIndex == indexOf(line, key)
                      IN  [st EXCEPT !.inTargetBlock = inBlock,
                                     !.found = <<Range(i - 1, fieldIndex, i - 1,
                                                       fieldIndex + Len(fieldName) + 1)>>]
                 ELSE [st EXCEPT !.inTargetBlock = inBlock]

RECURSIVE FieldScan(_, _, _, _, _)
FieldScan(lines, blockName, fieldName, st, i) ==
    IF i > Len(lines) \/ st.found # <<>> THEN st.found
    ELSE FieldScan(lines, blockName, fieldName,
                   FieldScanStep(lines, blockName, fieldName, st, i), i + 1)

\* A lookup that takes the first line holding the field, whatever the block
findFieldAnywhere(lines, blockName, fieldName) ==
    findTextInDocument(lines, fieldName \o Colon)

findBlockFieldInDocument(lines, blockName, fieldName) ==
    FieldScan(lines, blockName, fieldName,
              [inTargetBlock |-> FALSE, blockIndent |-> -1, found |-> <<>>], 1)

\* The range of a (block, field) subject: the field in the block, or else
\* the block, or else the start of the document
BlockFieldRange(lines, blockName, fieldName) ==
    OrElse(OrElse(findBlockFieldInDocument(lines, blockName, fieldName),
                  findBlockInDocument(lines, blockName)),
           <<ZeroRange>>)[1]

-----------------------------------------------------------------------------
(* Values as yaml.parse returns them, tagged; Get is property access and    *)
(* Truthy is JavaScript's truthiness of such a value.                       *)

Undefined == [t |-> "undefined"]
NullValue == [t |-> "null"]
Str(s) == [t |-> "string", v |-> s]
Arr(items) == [t |-> "array", v |-> items]
Obj(fields) == [t |-> "object", v |-> fields]
EmptyFields == [k \in {} |-> Undefined]
With(fields, k, val) == [x \in (DOMAIN fields) \cup {k} |-> IF x = k THEN val ELSE fields[x]]

\* Reading a property of null or undefined raises a TypeError
IsNullish(val) == val.t \in {"undefined", "null"}
Get(val, k) == IF val.t = "object" /\ k \in DOMAIN val.v THEN val.v[k] ELSE Undefined
Truthy(val) == ~IsNullish(val) /\ ~(val.t = "string" /\ val.v = <<>>)
IsArray(val) == val.t = "array"
IsString(val) == val.t = "string"

-----------------------------------------------------------------------------
(* yaml.parse on the block-style subset the documents use: mappings,        *)
(* block sequences, plain and quoted scalars.  A quoted scalar that is not  *)
(* closed, a duplicate key, or a line that fits no open collection is a     *)
(* syntax error.                                                            *)

Quotes == {"\"", "'"}

\* 0-based index of the first ':' that ends a key (followed by a space or
\* the end of the line), -1 when there is none
KeySep(s) ==
    LET hits == {i \in 1..Len(s) : s[i] = ":" /\ (i = Len(s) \/ s[i + 1] = " ")}
    IN  IF hits = {} \/ (s # <<>> /\ s[1] \in Quotes) THEN -1
        ELSE (CHOOSE i \in hits : \A j \in hits : i <= j) - 1

IsQuoted(raw) == Len(raw) >= 2 /\ raw[1] \in Quotes /\ raw[Len(raw)] = raw[1]
UnclosedQuote(raw) == raw # <<>> /\ raw[1] \in Quotes /\ ~IsQuoted(raw)
Unquote(raw) == IF IsQuoted(raw) THEN SubSeq(raw, 2, Len(raw) - 1) ELSE raw

Tok(line) ==
    LET t == trim(line)
        dash == t # <<>> /\ t[1] = "-" /\ (Len(t) = 1 \/ t[2] = " ")
        rest == IF dash THEN trimStart(Tail(t)) ELSE t
        sep == KeySep(rest)
        raw == IF sep > 0 THEN trim(SubSeq(rest, sep + 2, Len(rest))) ELSE rest
    IN  [blank |-> t = <<>>,
         indent |-> lineIndentOf(line),
         dash |-> dash,
         col |-> lineIndentOf(line) + (Len(t) - Len(rest)),
         hasKey |-> sep > 0,
         key |-> IF sep > 0 THEN SubSeq(rest, 1, sep) ELSE <<>>,
         raw |-> raw,
         bad |-> UnclosedQuote(raw) \/ (\E k \in 1..lineIndentOf(line) : line[k] = "\t")]

Toks(lines) == [i \in 1..Len(lines) |-> Tok(lines[i])]

RECURSIVE SkipBlank(_, _)
SkipBlank(toks, i) == IF i <= Len(toks) /\ toks[i].blank THEN SkipBlank(toks, i + 1) ELSE i

ParseError(i) == [ok |-> FALSE, v |-> Undefined, next |-> i]
Parsed(val, i) == [ok |-> TRUE, v |-> val, next |-> i]

RECURSIVE ParseNode(_, _, _)
RECURSIVE ParseMap(_, _, _, _)
RECURSIVE ParseSeq(_, _, _, _)
RECURSIVE ParseEntry(_, _, _, _)

\* The entry key: value of line j of a mapping at column ind, added to acc,
\* then the rest of that mapping
ParseEntry(toks, j, ind, acc) ==
    LET tk == toks[j]
        child == IF tk.raw # <<>> THEN Parsed(Str(Unquote(tk.raw)), j + 1)
                 ELSE ParseNode(toks, j + 1, ind)
    IN  IF tk.bad \/ tk.key \in DOMAIN acc \/ ~child.ok THEN ParseError(j)
        ELSE ParseMap(toks, child.next, ind, With(acc, tk.key, child.v))

ParseMap(toks, i, ind, acc) ==
    LET j == SkipBlank(toks, i)
    IN  IF j > Len(toks) \/ toks[j].indent < ind THEN Parsed(Obj(acc), j)
        ELSE IF toks[j].indent > ind \/ toks[j].dash \/ ~toks[j].hasKey THEN ParseError(j)
        ELSE ParseEntry(toks, j, ind, acc)

ParseSeq(toks, i, ind, acc) ==
    LET j == SkipBlank(toks, i)
    IN  IF j > Len(toks) \/ toks[j].indent < ind THEN Parsed(Arr(acc), j)
        ELSE IF toks[j].indent > ind \/ ~toks[j].dash THEN ParseError(j)
        ELSE LET tk == toks[j]
                 item == IF tk.hasKey THEN ParseEntry(toks, j, tk.col, EmptyFields)
                         ELSE IF tk.bad THEN ParseError(j)
                         ELSE IF tk.raw # <<>> THEN Parsed(Str(Unquote(tk.raw)), j + 1)
                         ELSE ParseNode(toks, j + 1, ind)
             IN  IF ~item.ok THEN ParseError(j)
                 ELSE ParseSeq(toks, item.next, ind, Append(acc, item.v))

\* The node under a key at column parentInd: null when nothing deeper follows
ParseNode(toks, i, parentInd) ==
    LET j == SkipBlank(toks, i)
    IN  IF j > Len(toks) \/ toks[j].indent <= parentInd THEN Parsed(NullValue, j)
        ELSE IF toks[j].dash THEN ParseSeq(toks, j, toks[j].indent, <<>>)
        ELSE IF toks[j].hasKey THEN ParseMap(toks, j, toks[j].indent, EmptyFields)
        ELSE IF toks[j].bad THEN ParseError(j)
        ELSE Parsed(Str(Unquote(toks[j].raw)), j + 1)

\* The whole text parsed: ok, the value, and the line (1-based) the parse
\* stopped at
ParseDocument(lines) ==
    The({The({[ok |-> r.ok /\ r.next > Len(toks), v |-> r.v, next |-> r.next] :
                  r \in {ParseNode(toks, 1, -1)}}) :
             toks \in {Toks(lines)}})

\* yaml.parse(content): [ok |-> FALSE] stands for the YAMLParseError it throws
yamlParse(lines) ==
    The({IF r.ok THEN [ok |-> TRUE, v |-> r.v] ELSE [ok |-> FALSE, v |-> Undefined] :
             r \in {ParseDocument(lines)}})

-----------------------------------------------------------------------------
(* The documents: workspace files in the layout the extension itself        *)
(* writes (blocks:, then "  - name: x" entries with their fields two        *)
(* columns deeper).                                                         *)

Sp(n) == [i \in 1..n |-> " "]
KeyLine(ind, key) == Sp(ind) \o key \o Colon
FieldLine(ind, key, val) == Sp(ind) \o key \o <<":", " ">> \o val
ItemLine(ind, name) == Sp(ind) \o DashName \o <<" ">> \o name

Alpha == <<"a", "l", "p", "h", "a">>
Beta == <<"b", "e", "t", "a">>
Al == <<"a", "l">>
RegistryX == <<"r", "e", "g", "i", "s", "t", "r", "y", "/", "x">>
RegistryYLatest == <<"r", "e", "g", "i", "s", "t", "r", "y", "/", "y">> \o ColonLatest
RegistryZPinned == <<"r", "e", "g", "i", "s", "t", "r", "y", "/", "z", ":", "1", ".", "2">>
Acme == <<"a", "c", "m", "e">>
Demo == <<"d", "e", "m", "o">>

-----------------------------------------------------------------------------
(* Diagnostics.  A message is the sequence of the pieces of its template:   *)
(* the literal text and the values put into it.                             *)

Diagnostic(range, message, severity) ==
    [range |-> range, message |-> message, severity |-> severity]

\* What `${value}` and includes(value) make of a value that is no string
UndefinedText == <<"u", "n", "d", "e", "f", "i", "n", "e", "d">>
Unnamed == <<"u", "n", "n", "a", "m", "e", "d">>
ToText(val) ==
    IF val.t = "string" THEN val.v
    ELSE IF val.t = "null" THEN <<"n", "u", "l", "l">> ELSE UndefinedText

\* The result of a function that may raise: what it had collected, and
\* whether it raised
Done(diags) == [diags |-> diags, threw |-> FALSE]
Threw(diags) == [diags |-> diags, threw |-> TRUE]

\* Character offset of the start of line j (1-based) in the text
RECURSIVE OffsetOf(_, _)
OffsetOf(lines, j) ==
    IF j <= 1 THEN 0 ELSE OffsetOf(lines, j - 1) + Len(lines[j - 1]) + 1

\* validateYamlSyntax: one Error per error of yaml.parseDocument, whose
\* position (character offsets) the code uses as line and column
YamlError(pos0, line) ==
    Diagnostic(Range(pos0, pos0 + 1, pos0, pos0 + 1 + 10),
               <<"YAML syntax error: ", line>>, "Error")

validateYamlSyntax(content) ==
    The({IF r.ok THEN <<>> ELSE <<YamlError(OffsetOf(content, r.next), r.next)>> :
             r \in {ParseDocument(content)}})

\* Checks that take only ':' for a version delimiter
FromWarningsColonOnly(name, from, blockRange) ==
    IF includes(from, ColonLatest) \/ includes(from, AtLatest)
    THEN <<Diagnostic(blockRange,
                      <<"Block '", name, "' uses 'from: ", from, "' with 'latest' tag">>,
                      "Warning")>>
    ELSE IF ~includes(from, Colon)
         THEN <<Diagnostic(blockRange,
                           <<"Block '", name, "' uses 'from: ", from,
                             "' without specifying a version">>,
                           "Warning")>>
         ELSE <<>>

\* The two checks of one string `from` value
FromWarnings(name, from, blockRange) ==
    IF includes(from, ColonLatest) \/ includes(from, AtLatest)
    THEN <<Diagnostic(blockRange,
                      <<"Block '", name, "' uses 'from: ", from, "' with 'latest' tag">>,
                      "Warning")>>
    ELSE \* the two patterns of hasVersionTag need a ':' or an '@' themselves
         IF ~(includes(from, Colon) \/ includes(from, <<"@">>))
         THEN <<Diagnostic(blockRange,
                           <<"Block '", name, "' uses 'from: ", from,
                             "' without specifying a version">>,
                           "Warning")>>
         ELSE <<>>

\* The loop of validateFromFieldsInDocument over doc.blocks from entry i on
RECURSIVE FromFieldsLoop(_, _, _, _)
FromFieldsLoop(lines, blocks, i, diags) ==
    IF i > Len(blocks) THEN Done(diags)
    ELSE LET block == blocks[i]
             from == Get(block, FromKey)
             name == Get(block, NameKey)
         IN  IF IsNullish(block) THEN Threw(diags)
             ELSE IF Truthy(from) /\ Truthy(name) /\ IsString(from)
             THEN LET blockRange == BlockFieldRange(lines, ToText(name), FromKey)
                  IN  FromFieldsLoop(lines, blocks, i + 1,
                                     diags \o FromWarnings(ToText(name), from.v, blockRange))
             ELSE FromFieldsLoop(lines, blocks, i + 1, diags)

\* validateFromFieldsInDocument: its catch returns what was collected
FromFieldsOf(lines, parsed) ==
    LET blocks == Get(parsed.v, BlocksKey)
    IN  IF ~parsed.ok THEN <<>>
        ELSE IF ~Truthy(parsed.v) \/ ~Truthy(blocks) \/ ~IsArray(blocks) THEN <<>>
        ELSE FromFieldsLoop(lines, blocks.v, 1, <<>>).diags

validateFromFieldsInDocument(lines) ==
    The({FromFieldsOf(lines, parsed) : parsed \in {yamlParse(lines)}})

-----------------------------------------------------------------------------
(* The snapshot-derived rules *)

WorkspaceKey == <<"w", "o", "r", "k", "s", "p", "a", "c", "e">>
ActionsKey == <<"a", "c", "t", "i", "o", "n", "s">>
ImageKey == <<"i", "m", "a", "g", "e">>

\* The loop over block.actions from action i on, for the range lookups on lines
RECURSIVE SnapshotActionsLoop(_, _, _, _, _)
SnapshotActionsLoop(lines, block, actions, i, diags) ==
    IF i > Len(actions) THEN Done(diags)
    ELSE IF IsNullish(actions[i]) THEN Threw(diags)
    ELSE IF ~Truthy(Get(actions[i], NameKey))
    THEN LET range == OrElse(findBlockInDocument(lines, ToText(Get(block, NameKey))),
                             <<ZeroRange>>)[1]
         IN  SnapshotActionsLoop(lines, block, actions, i + 1,
                 Append(diags, Diagnostic(range,
                     <<"Action in block '", ToText(Get(block, NameKey)), "' is missing name">>,
                     "Error")))
    ELSE SnapshotActionsLoop(lines, block, actions, i + 1, diags)

\* The loop of validateWorkspaceSnapshot over workspace.blocks from entry i on
RECURSIVE SnapshotBlocksLoop(_, _, _, _)
SnapshotBlocksLoop(lines, blocks, i, diags) ==
    IF i > Len(blocks) THEN Done(diags)
    ELSE LET block == blocks[i]
             name == Get(block, NameKey)
             actions == Get(block, ActionsKey)
             named == IF Truthy(name) THEN diags
                      ELSE Append(diags, Diagnostic(
                               OrElse(findBlockInDocument(lines, Unnamed), <<ZeroRange>>)[1],
                               <<"Block is missing name">>, "Error"))
         IN  IF IsNullish(block) THEN Threw(diags)
             ELSE IF Truthy(actions) /\ IsArray(actions)
             THEN LET inner == SnapshotActionsLoop(lines, block, actions.v, 1, named)
                  IN  IF inner.threw THEN inner
                      ELSE SnapshotBlocksLoop(lines, blocks, i + 1, inner.diags)
             ELSE SnapshotBlocksLoop(lines, blocks, i + 1, named)

\* validateWorkspaceSnapshot(snapshot, document), for a truthy snapshot; it
\* has no catch of its own
validateWorkspaceSnapshot(snapshot, lines) ==
    LET workspace == IF Truthy(Get(snapshot, WorkspaceKey)) THEN Get(snapshot, WorkspaceKey)
                     ELSE snapshot
        d1 == IF Truthy(Get(workspace, NameKey)) THEN <<>>
              ELSE <<Diagnostic(OrElse(findTextInDocument(lines, NameKey \o Colon),
                                       <<ZeroRange>>)[1],
                                <<"Workspace name is missing">>, "Error")>>
        d2 == IF Truthy(Get(workspace, OrganizationKey)) THEN <<>>
              ELSE <<Diagnostic(OrElse(findTextInDocument(lines, OrganizationKey \o Colon),
                                       <<ZeroRange>>)[1],
                                <<"Workspace organization is missing">>, "Error")>>
        blocks == Get(workspace, BlocksKey)
    IN  The({IF Truthy(blocks) /\ IsArray(blocks)
             THEN SnapshotBlocksLoop(lines, blocks.v, 1, first)
             ELSE Done(first) :
                 first \in {d1 \o d2 \o validateFromFieldsInDocument(lines)}})

-----------------------------------------------------------------------------
(* The rules for a block.poly file under the CLI *)

\* workspace.blocks.find(b => b.name === blockName): 0 when there is none,
\* -1 when reading b.name raised before one was found
RECURSIVE FindBlockIndex(_, _, _)
FindBlockIndex(blocks, blockName, i) ==
    IF i > Len(blocks) THEN 0
    ELSE IF IsNullish(blocks[i]) THEN -1
    ELSE IF Get(blocks[i], NameKey) = Str(blockName) THEN i
    ELSE FindBlockIndex(blocks, blockName, i + 1)

\* validateBlockInWorkspaceSnapshot(snapshot, blockName, document)
validateBlockInWorkspaceSnapshot(snapshot, blockName, lines) ==
    LET workspace == IF Truthy(Get(snapshot, WorkspaceKey)) THEN Get(snapshot, WorkspaceKey)
                     ELSE snapshot
        blocks == Get(workspace, BlocksKey)
        at == FindBlockIndex(blocks.v, blockName, 1)
        block == blocks.v[at]
        range == OrElse(findBlockInDocument(lines, blockName), <<ZeroRange>>)[1]
        d1 == IF Truthy(Get(block, NameKey)) THEN <<>>
              ELSE <<Diagnostic(range, <<"Block is missing name">>, "Error")>>
        actions == Get(block, ActionsKey)
    IN  IF ~(Truthy(blocks) /\ IsArray(blocks)) THEN Done(<<>>)
        ELSE IF at = -1 THEN Threw(<<>>)
        ELSE IF at = 0
        THEN Done(<<Diagnostic(range, <<"Block '", blockName,
                                        "' is not recognized by the workspace">>, "Warning")>>)
        ELSE IF Truthy(actions) /\ IsArray(actions)
        THEN SnapshotActionsLoop(lines, block, actions.v, 1, d1)
        ELSE Done(d1)

\* validateFromFieldsInBlockDocument(document)
FromFieldOf(lines, parsed) ==
    LET doc == parsed.v
        from == Get(doc, FromKey)
        blockName == IF Truthy(Get(doc, NameKey)) THEN ToText(Get(doc, NameKey)) ELSE Unnamed
        fromRange == OrElse(findTextInDocument(lines, FromKey \o Colon), <<ZeroRange>>)[1]
    IN  IF ~parsed.ok \/ ~Truthy(doc) \/ ~Truthy(from) THEN <<>>
        ELSE IF IsString(from) THEN FromWarnings(blockName, from.v, fromRange)
        ELSE <<>>

validateFromFieldsInBlockDocument(lines) ==
    The({FromFieldOf(lines, parsed) : parsed \in {yamlParse(lines)}})

-----------------------------------------------------------------------------
(* The local schema rules *)

\* requiredFields of validateWorkspaceSchema, in its order
RequiredFields == <<NameKey, OrganizationKey>>

RECURSIVE RequiredFieldsLoop(_, _, _, _)
RequiredFieldsLoop(doc, lines, i, diags) ==
    IF i > Len(RequiredFields) THEN diags
    ELSE LET field == RequiredFields[i]
         IN  IF Truthy(Get(doc, field)) THEN RequiredFieldsLoop(doc, lines, i + 1, diags)
             ELSE RequiredFieldsLoop(doc, lines, i + 1,
                      Append(diags, Diagnostic(
                          OrElse(findTextInDocument(lines, field \o Colon), <<ZeroRange>>)[1],
                          <<"Missing required field: ", field>>, "Error")))

\* The loop of validateWorkspaceSchema over doc.blocks from entry i on
RECURSIVE SchemaBlocksLoop(_, _, _, _)
SchemaBlocksLoop(lines, blocks, i, diags) ==
    IF i > Len(blocks) THEN Done(diags)
    ELSE LET block == blocks[i]
             name == Get(block, NameKey)
             d1 == IF Truthy(name) THEN <<>>
                   ELSE <<Diagnostic(OrElse(findTextInDocument(lines, DashName),
                                            <<ZeroRange>>)[1],
                                     <<"Block at index ", i - 1,
                                       " is missing required field: name">>, "Error")>>
             d2 == IF Truthy(Get(block, KindKey)) THEN <<>>
                   ELSE <<Diagnostic(
                            BlockFieldRange(lines, ToText(name), KindKey),
                            <<"Block '", IF Truthy(name) THEN ToText(name) ELSE Unnamed,
                              "' is missing required field: kind">>, "Error")>>
         IN  IF IsNullish(block) THEN Threw(diags)
             ELSE SchemaBlocksLoop(lines, blocks, i + 1, diags \o d1 \o d2)

\* validateWorkspaceSchema(doc, document).  Every scalar of the documents
\* here is a string, so its check of config.image (neither an object nor a
\* string) finds nothing.
validateWorkspaceSchema(doc, lines) ==
    LET d1 == RequiredFieldsLoop(doc, lines, 1, <<>>)
        blocks == Get(doc, BlocksKey)
    IN  IF Truthy(blocks) /\ IsArray(blocks) THEN SchemaBlocksLoop(lines, blocks.v, 1, d1)
        ELSE Done(d1)


ScriptKey == <<"s", "c", "r", "i", "p", "t">>
PlaybookKey == <<"p", "l", "a", "y", "b", "o", "o", "k">>
ValidKinds == {<<"g", "e", "n", "e", "r", "i", "c">>, <<"k", "8", "s", "a", "p", "p">>,
               <<"k", "8", "s", "c", "l", "u", "s", "t", "e", "r">>, <<"d", "b">>,
               <<"k", "v">>, <<"m", "q">>, <<"a", "p", "p">>}

\* The loop of validateBlockSchema over doc.actions from action i on
RECURSIVE SchemaActionsLoop(_, _, _, _)
SchemaActionsLoop(lines, actions, i, diags) ==
    IF i > Len(actions) THEN Done(diags)
    ELSE LET action == actions[i]
             name == Get(action, NameKey)
             range == OrElse(findTextInDocument(lines, ActionsKey \o Colon), <<ZeroRange>>)[1]
             d1 == IF Truthy(name) THEN <<>>
                   ELSE <<Diagnostic(range, <<"Action at index ", i - 1,
                                              " is missing required field: name">>, "Error")>>
             d2 == IF Truthy(Get(action, ScriptKey)) \/ Truthy(Get(action, PlaybookKey))
                   THEN <<>>
                   ELSE <<Diagnostic(range,
                            <<"Action '", IF Truthy(name) THEN ToText(name) ELSE Unnamed,
                              "' should have either 'script' or 'playbook' field">>,
                            "Warning")>>
         IN  IF IsNullish(action) THEN Threw(diags)
             ELSE SchemaActionsLoop(lines, actions, i + 1, diags \o d1 \o d2)

\* validateBlockSchema(doc, document)
validateBlockSchema(doc, lines) ==
    LET d1 == IF Truthy(Get(doc, NameKey)) THEN <<>>
              ELSE <<Diagnostic(OrElse(findTextInDocument(lines, NameKey \o Colon),
                                       <<ZeroRange>>)[1],
                                <<"Missing required field: ", NameKey>>, "Error")>>
        kind == Get(doc, KindKey)
        d2 == IF ~Truthy(kind) \/ (IsString(kind) /\ kind.v \in ValidKinds) THEN <<>>
              ELSE <<Diagnostic(OrElse(findTextInDocument(lines, KindKey \o Colon),
                                       <<ZeroRange>>)[1],
                                <<"Invalid kind value: ", ToText(kind)>>, "Warning")>>
        actions == Get(doc, ActionsKey)
    IN  IF Truthy(actions) /\ IsArray(actions)
        THEN SchemaActionsLoop(lines, actions.v, 1, d1 \o d2)
        ELSE Done(d1 \o d2)

WorkspacePoly == WorkspaceKey \o <<".", "p", "o", "l", "y">>          \* 'workspace.poly'
BlockPoly == <<"b", "l", "o", "c", "k", ".", "p", "o", "l", "y">>      \* 'block.poly'
DotWorkspace == <<".">> \o WorkspaceKey                               \* '.workspace'
DotPolycrate == <<".", "p", "o", "l", "y", "c", "r", "a", "t", "e">>  \* '.polycrate'

\* validatePolycrateSchema(content, filePath, document): content is parsed,
\* the ranges are looked up in the document as it is when this runs (lines);
\* its catch returns the diagnostics pushed so far, and a rule set that
\* raised has pushed none
SchemaRulesOf(parsed, fileName, lines) ==
    LET doc == parsed.v
        isWorkspace == fileName = WorkspacePoly \/ Get(doc, BlocksKey) # Undefined
        isBlock == fileName = BlockPoly \/ Get(doc, ActionsKey) # Undefined
    IN  IF ~parsed.ok \/ ~Truthy(doc) THEN <<>>
        ELSE The({IF rules.threw THEN <<>> ELSE rules.diags :
                      rules \in {IF isWorkspace THEN validateWorkspaceSchema(doc, lines)
                                 ELSE IF isBlock THEN validateBlockSchema(doc, lines)
                                 ELSE Done(<<>>)}})

validatePolycrateSchema(content, fileName, lines) ==
    The({SchemaRulesOf(parsed, fileName, lines) : parsed \in {yamlParse(content)}})

-----------------------------------------------------------------------------
(* Paths and the workspace root.  A path is the sequence of its segments;   *)
(* <<>> is the filesystem root, which is its own parent.                    *)

basename(p) == IF p = <<>> THEN <<>> ELSE p[Len(p)]
dirname(p) == IF p = <<>> THEN <<>> ELSE SubSeq(p, 1, Len(p) - 1)

WorkspaceFiles == {DotWorkspace, WorkspacePoly, DotPolycrate}

\* isInWorkspaceRoot, on the set of the files that exist
isInWorkspaceRoot(files, workingDir) ==
    \E file \in WorkspaceFiles : Append(workingDir, file) \in files

\* findWorkspaceRoot: <<>> for null, <<dir>> for a directory
RECURSIVE findWorkspaceRoot(_, _)
findWorkspaceRoot(files, currentDir) ==
    IF currentDir = dirname(currentDir) THEN <<>>
    ELSE IF Append(currentDir, WorkspacePoly) \in files THEN <<currentDir>>
    ELSE IF isInWorkspaceRoot(files, currentDir) THEN <<currentDir>>
    ELSE findWorkspaceRoot(files, dirname(currentDir))

PolycrateFileNames == {WorkspacePoly, BlockPoly, DotWorkspace}
isPolycrateFile(uri) == basename(uri) \in PolycrateFileNames

-----------------------------------------------------------------------------
(* validateFile, cut at its awaits of the CLI.  An outcome of a CLI call    *)
(* is [ok |-> FALSE] when the command could not be run or exited non-zero,  *)
(* and [ok |-> TRUE, v |-> yaml.parse of its output] otherwise.             *)

\* validateWithCli up to its await: whether `workspace snapshot` is run
RunsSnapshot(files, uri) ==
    /\ isPolycrateFile(uri)
    /\ basename(uri) \in {BlockPoly, WorkspacePoly}
            => findWorkspaceRoot(files, dirname(uri)) # <<>>

\* getWorkspaceSnapshot: null when the command fails
getWorkspaceSnapshot(outcome) == IF outcome.ok THEN outcome.v ELSE NullValue

\* validateWithCli after its await, on the document as it is then (lines);
\* its catch returns its own list, to which a rule set that raised added
\* nothing
CliValidation(uri, outcome, lines) ==
    LET snapshot == getWorkspaceSnapshot(outcome)
        blockName == basename(dirname(uri))
    IN  IF ~Truthy(snapshot) THEN <<>>
        ELSE IF basename(uri) = BlockPoly
        THEN The({IF inBlock.threw THEN <<>>
                  ELSE inBlock.diags \o validateFromFieldsInBlockDocument(lines) :
                      inBlock \in {validateBlockInWorkspaceSnapshot(snapshot, blockName, lines)}})
        ELSE The({IF found.threw THEN <<>> ELSE found.diags :
                      found \in {validateWorkspaceSnapshot(snapshot, lines)}})

\* An end of validateFile that adds the local schema rules in every case
FinishValidationBoth(uri, content, yamlValidation, cliValidation, cliAvailable, lines) ==
    IF isPolycrateFile(uri) /\ cliAvailable
    THEN yamlValidation \o cliValidation \o validatePolycrateSchema(content, basename(uri), lines)
    ELSE yamlValidation \o validatePolycrateSchema(content, basename(uri), lines)

\* The end of validateFile: the CLI's diagnostics when the file is a
\* Polycrate file and `version` ran, the local schema rules otherwise
FinishValidation(uri, content, yamlValidation, cliValidation, cliAvailable, lines) ==
    IF isPolycrateFile(uri) /\ cliAvailable
    THEN yamlValidation \o cliValidation
    ELSE yamlValidation \o validatePolycrateSchema(content, basename(uri), lines)

\* validateFile when the document does not change while it runs
validateFile(files, uri, lines, outcome, cliAvailable) ==
    FinishValidation(uri, lines, validateYamlSyntax(lines),
                     IF RunsSnapshot(files, uri) THEN CliValidation(uri, outcome, lines)
                     ELSE <<>>,
                     cliAvailable, lines)

\* A collection whose set() adds to the set already published
CollectionSetAdding(coll, uri, diagnostics) ==
    [coll EXCEPT ![uri] = IF @ = <<>> THEN <<diagnostics>> ELSE <<@[1] \o diagnostics>>]

\* A collection whose delete() drops the sets of all documents
CollectionDeleteAll(coll, uri) == [u \in DOMAIN coll |-> <<>>]

\* diagnosticCollection.set(uri, diagnostics) and .delete(uri)
CollectionSet(coll, uri, diagnostics) == [coll EXCEPT ![uri] = <<diagnostics>>]
CollectionDelete(coll, uri) == [coll EXCEPT ![uri] = <<>>]

-----------------------------------------------------------------------------
(* The validation provider: two documents of one folder, workspace.poly     *)
(* (language polycrate) and notes.md (language markdown).                   *)

MaxVersion == 2     \* edits stop when a document's version reaches this
MaxInFlight == 2    \* no more validations of one document in flight than this

WorkDir == <<<<"w">>>>
WsUri == Append(WorkDir, WorkspacePoly)
NotesUri == Append(WorkDir, <<"n", "o", "t", "e", "s", ".", "m", "d">>)
Docs == {WsUri, NotesUri}
languageId(uri) == IF uri = NotesUri THEN "markdown" ELSE "polycrate"

\* The files on disk: the folder holds the workspace file
DiskFiles == {WsUri}

TextGood ==
    << FieldLine(0, NameKey, Demo), FieldLine(0, OrganizationKey, Acme),
       KeyLine(0, BlocksKey),
       ItemLine(2, Alpha), FieldLine(4, FromKey, RegistryZPinned) >>
TextNoOrg ==
    << FieldLine(0, NameKey, Demo), KeyLine(0, BlocksKey),
       ItemLine(2, Alpha), FieldLine(4, FromKey, RegistryYLatest) >>
TextUnclosed ==
    << FieldLine(0, NameKey, <<"\"">> \o Demo), FieldLine(0, OrganizationKey, Acme) >>
TextNotes == << <<"t", "o", "d", "o">> >>

TextsOf(uri) == IF uri = NotesUri THEN {TextNotes} ELSE {TextGood, TextNoOrg}

\* What the CLI may answer to `workspace snapshot`
Failed == [ok |-> FALSE]
Answer(val) == [ok |-> TRUE, v |-> val]
Fields2(k1, v1, k2, v2) == With(With(EmptyFields, k1, v1), k2, v2)
SnapBlock(name) == Obj(Fields2(NameKey, Str(name), KindKey, Str(<<"g", "e", "n", "e", "r", "i", "c">>)))
SnapWorkspace(name, organization, blocks) ==
    Obj(With(EmptyFields, WorkspaceKey,
             Obj(With(Fields2(NameKey, name, OrganizationKey, organization),
                      BlocksKey, Arr(blocks)))))
SnapGood == SnapWorkspace(Str(Demo), Str(Acme), <<SnapBlock(Alpha)>>)
SnapNoOrg == SnapWorkspace(Str(Demo), Undefined, <<SnapBlock(Alpha)>>)
ProviderOutcomes == {Failed, Answer(SnapGood)}

\* The last call that returned for a document: the function, its arguments,
\* its result and, for validateDocument, the set published before it
NoCall == [fn |-> "none"]

\* The text a validation in flight reads: the document object it holds,
\* which keeps its last text once the document is closed
DocText(task) == IF task.closedText # <<>> THEN task.closedText[1] ELSE text[task.uri]

RemoveAt(seq, i) == SubSeq(seq, 1, i - 1) \o SubSeq(seq, i + 1, Len(seq))
InFlight(uri) == {i \in DOMAIN tasks : tasks[i].uri = uri}

\* validateDocument(document) up to the first await of the CLI.  A file
\* that is no Polycrate file awaits no process: its validation ends, and
\* publishes, before any other event is handled.
Validating(uri, lines, ts, coll, cl) ==
    IF isPolycrateFile(uri)
    THEN /\ tasks' = Append(ts, [uri |-> uri, version |-> version'[uri],
                                 pc |-> IF RunsSnapshot(DiskFiles, uri) THEN "snapshot"
                                        ELSE "version",
                                 content |-> lines,
                                 yamlValidation |-> validateYamlSyntax(lines),
                                 cliValidation |-> <<>>,
                                 closedText |-> <<>>])
         /\ collection' = coll
         /\ call' = cl
    ELSE LET diagnostics == FinishValidation(uri, lines, validateYamlSyntax(lines),
                                             <<>>, FALSE, lines)
         IN  /\ tasks' = ts
             /\ collection' = CollectionSet(coll, uri, diagnostics)
             /\ call' = [cl EXCEPT ![uri] = [fn |-> "validateDocument",
                                             version |-> version'[uri],
                                             before |-> coll[uri],
                                             result |-> diagnostics]]

\* The constructor: every open document is validated, whatever its language
Init ==
    /\ text = [u \in Docs |-> IF u = NotesUri THEN TextNotes ELSE TextGood]
    /\ version = [u \in Docs |-> 1]
    /\ isOpen \in [Docs -> BOOLEAN]
    /\ tasks = IF isOpen[WsUri]
               THEN <<[uri |-> WsUri, version |-> 1, pc |-> "snapshot",
                       content |-> text[WsUri],
                       yamlValidation |-> validateYamlSyntax(text[WsUri]),
                       cliValidation |-> <<>>, closedText |-> <<>>]>>
               ELSE <<>>
    /\ collection = [u \in Docs |->
                        IF u = NotesUri /\ isOpen[u]
                        THEN <<validateFile(DiskFiles, u, text[u], Failed, FALSE)>>
                        ELSE <<>>]
    /\ call = [u \in Docs |->
                  IF u = NotesUri /\ isOpen[u]
                  THEN [fn |-> "validateDocument", version |-> 1, before |-> <<>>,
                        result |-> validateFile(DiskFiles, u, text[u], Failed, FALSE)]
                  ELSE NoCall]

\* onDidOpenTextDocument
Open(uri) ==
    /\ ~isOpen[uri]
    /\ isOpen' = [isOpen EXCEPT ![uri] = TRUE]
    /\ UNCHANGED <<text, version>>
    /\ IF languageId(uri) = "polycrate"
       THEN /\ Cardinality(InFlight(uri)) < MaxInFlight
            /\ Validating(uri, text[uri], tasks, collection, call)
       ELSE UNCHANGED <<tasks, collection, call>>

\* An edit, and onDidChangeTextDocument
Edit(uri, lines) ==
    /\ isOpen[uri]
    /\ version[uri] < MaxVersion
    /\ lines # text[uri]
    /\ text' = [text EXCEPT ![uri] = lines]
    /\ version' = [version EXCEPT ![uri] = @ + 1]
    /\ UNCHANGED isOpen
    /\ IF languageId(uri) = "polycrate"
       THEN /\ Cardinality(InFlight(uri)) < MaxInFlight
            /\ Validating(uri, lines, tasks, collection, call)
       ELSE UNCHANGED <<tasks, collection, call>>

\* onDidCloseTextDocument
Close(uri) ==
    /\ isOpen[uri]
    /\ isOpen' = [isOpen EXCEPT ![uri] = FALSE]
    /\ tasks' = [i \in DOMAIN tasks |->
                    IF tasks[i].uri = uri /\ tasks[i].closedText = <<>>
                    THEN [tasks[i] EXCEPT !.closedText = <<text[uri]>>]
                    ELSE tasks[i]]
    /\ collection' = IF languageId(uri) = "polycrate" THEN CollectionDelete(collection, uri)
                     ELSE collection
    /\ UNCHANGED <<text, version, call>>

\* `workspace snapshot` ends: validateWithCli goes on, then `version` is run
SnapshotDone(i, outcome) ==
    /\ tasks[i].pc = "snapshot"
    /\ tasks' = [tasks EXCEPT ![i].pc = "version",
                              ![i].cliValidation =
                                  CliValidation(tasks[i].uri, outcome, DocText(tasks[i]))]
    /\ UNCHANGED <<text, version, isOpen, collection, call>>

\* `version` ends: validateFile returns and validateDocument publishes
VersionDone(i, cliAvailable) ==
    /\ tasks[i].pc = "version"
    /\ LET task == tasks[i]
           diagnostics == FinishValidation(task.uri, task.content, task.yamlValidation,
                                           task.cliValidation, cliAvailable, DocText(task))
       IN  /\ collection' = CollectionSet(collection, task.uri, diagnostics)
           /\ call' = [call EXCEPT ![task.uri] = [fn |-> "validateDocument",
                                                  version |-> task.version,
                                                  before |-> collection[task.uri],
                                                  result |-> diagnostics]]
    /\ tasks' = RemoveAt(tasks, i)
    /\ UNCHANGED <<text, version, isOpen>>

-----------------------------------------------------------------------------
(* The language server's functions applied to workspace documents, one     *)
(* call after the other on a text that does not change.                    *)

MaxBlocks == 3       \* block entries of a generated document, scans
MaxFileBlocks == 2   \* block entries of a generated document, validateDocument

Names == {Alpha, Beta, Al}
\* The `from` of an entry: none (<<>>), no version, a quoted :latest, pinned
Froms == {<<>>, RegistryX, <<"\"">> \o RegistryYLatest \o <<"\"">>, RegistryZPinned}
Entries == [name : Names, from : Froms]

EntryLines(entry) ==
    <<ItemLine(2, entry.name)>>
        \o (IF entry.from = <<>> THEN <<>> ELSE <<FieldLine(4, FromKey, entry.from)>>)

RECURSIVE BlockLines(_)
BlockLines(entries) ==
    IF entries = <<>> THEN <<>> ELSE EntryLines(Head(entries)) \o BlockLines(Tail(entries))

\* A top-level section after the blocks, with a field named like a block's
Trailers == {<<>>, <<KeyLine(0, ConfigKey), FieldLine(2, FromKey, RegistryX)>>}

WorkspaceText(hasName, hasOrganization, entries, trailer) ==
    (IF hasName THEN <<FieldLine(0, NameKey, Demo)>> ELSE <<>>)
        \o (IF hasOrganization THEN <<FieldLine(0, OrganizationKey, Acme)>> ELSE <<>>)
        \o <<KeyLine(0, BlocksKey)>> \o BlockLines(entries) \o trailer

\* The identity fields a generated document has: <<name, organization>>
Headers == BOOLEAN \X BOOLEAN

GenTexts(maxBlocks, headers, trailers) ==
    {WorkspaceText(header[1], header[2], entries, trailer) :
        header \in headers,
        entries \in UNION {[1..k -> Entries] : k \in 0..maxBlocks},
        trailer \in trailers}

\* Snapshots the CLI may print for such a workspace
SnapUnnamedAction ==
    SnapWorkspace(Str(Demo), Str(Acme),
                  <<Obj(Fields2(NameKey, Str(Beta),
                                ActionsKey, Arr(<<Obj(With(EmptyFields, ScriptKey, Str(Al)))>>)))>>)
Snapshots == {SnapGood, SnapNoOrg, SnapUnnamedAction}

\* The files on disk: with the workspace file, or with no marker at all
DiskStates == {DiskFiles, {}}
\* What the two CLI calls answer: `workspace snapshot`, then `version`
FileOutcomes == {Failed, Answer(NullValue), Answer(SnapGood), Answer(SnapNoOrg)}

FnInitOn(texts) ==
    /\ text \in {[u \in Docs |-> IF u = NotesUri THEN TextNotes ELSE lines] : lines \in texts}
    /\ version = [u \in Docs |-> 1]
    /\ isOpen = [u \in Docs |-> TRUE]
    /\ tasks = <<>>
    /\ collection = [u \in Docs |-> <<>>]
    /\ call = [u \in Docs |-> NoCall]

Returned(uri, record) ==
    /\ call' = [call EXCEPT ![uri] = record]
    /\ UNCHANGED <<text, version, isOpen, tasks, collection>>

CallFindBlockField(uri, blockName, fieldName) ==
    /\ call[uri] = NoCall
    /\ Returned(uri, [fn |-> "findBlockFieldInDocument",
                      blockName |-> blockName, fieldName |-> fieldName,
                      result |-> findBlockFieldInDocument(text[uri], blockName, fieldName)])

CallValidateFromFields(uri) ==
    /\ call[uri] = NoCall
    /\ Returned(uri, [fn |-> "validateFromFieldsInDocument",
                      result |-> validateFromFieldsInDocument(text[uri])])

CallValidateWorkspaceSnapshot(uri, snapshot) ==
    /\ call[uri] = NoCall
    /\ Returned(uri, [fn |-> "validateWorkspaceSnapshot", snapshot |-> snapshot,
                      result |-> validateWorkspaceSnapshot(snapshot, text[uri])])

CallBlockFieldRange(uri, blockName, fieldName) ==
    /\ call[uri] = NoCall
    /\ Returned(uri, [fn |-> "blockRange",
                      blockName |-> blockName, fieldName |-> fieldName,
                      result |-> BlockFieldRange(text[uri], blockName, fieldName)])

\* validateDocument run to its end with no event in between, under the
\* given disk and CLI answers; a later run gets the same disk and answers
CallValidateDocument(uri, files, outcome, cliAvailable) ==
    /\ call[uri].fn \in {"none", "validateDocument"}
    /\ call[uri].fn = "validateDocument" =>
            /\ call[uri].files = files
            /\ call[uri].outcome = outcome
            /\ call[uri].cliAvailable = cliAvailable
    /\ \E diagnostics \in {validateFile(files, uri, text[uri], outcome, cliAvailable)} :
            /\ collection' = CollectionSet(collection, uri, diagnostics)
            /\ call' = [call EXCEPT ![uri] =
                            [fn |-> "validateDocument", files |-> files, outcome |-> outcome,
                             cliAvailable |-> cliAvailable, version |-> version[uri],
                             before |-> collection[uri], result |-> diagnostics]]
    /\ UNCHANGED <<text, version, isOpen, tasks>>

FnInit == FnInitOn(GenTexts(MaxBlocks, {<<TRUE, TRUE>>}, Trailers))

FnNext ==
    \/ \E blockName \in Names : CallFindBlockField(WsUri, blockName, FromKey)
    \/ \E blockName \in Names : CallBlockFieldRange(WsUri, blockName, FromKey)
    \/ CallValidateFromFields(WsUri)
    \/ \E snapshot \in Snapshots : CallValidateWorkspaceSnapshot(WsUri, snapshot)

FnSpec == FnInit /\ [][FnNext]_vars

FileInit == FnInitOn(GenTexts(MaxFileBlocks, Headers, {<<>>}) \cup {TextUnclosed})

\* With no workspace root `workspace snapshot` is not run and has no answer
FileNext ==
    \E files \in DiskStates :
        \E outcome \in IF files = {} THEN {Failed} ELSE FileOutcomes :
            \E cliAvailable \in BOOLEAN :
                CallValidateDocument(WsUri, files, outcome, cliAvailable)

FileSpec == FileInit /\ [][FileNext]_vars

-----------------------------------------------------------------------------
(* validateDocument run to its end on small documents, under every kind of *)
(* answer of `workspace snapshot`: the failures, output that is no         *)
(* snapshot, and snapshots and documents with an empty list entry.         *)

MaxRuleBlocks == 1   \* block entries of a generated document, RuleSpec

\* A document whose blocks list ends in an empty entry (`-`), which
\* yaml.parse reads as null
TextNullBlock ==
    << FieldLine(0, NameKey, Demo), KeyLine(0, BlocksKey),
       ItemLine(2, Alpha), FieldLine(4, FromKey, RegistryX), Sp(2) \o <<"-">> >>

\* A snapshot whose blocks list has a null entry after a block
SnapNullBlock == SnapWorkspace(Str(Demo), Undefined, <<SnapBlock(Alpha), NullValue>>)

\* Output of the command that is no mapping: one line of plain text, and
\* an empty list
MalformedOutput == << <<"o", "o", "p", "s">> >>
RuleOutcomes ==
    FileOutcomes \cup {Answer(SnapNullBlock), Answer(yamlParse(MalformedOutput).v),
                       Answer(Arr(<<>>))}

RuleInit == FnInitOn(GenTexts(MaxRuleBlocks, Headers, {<<>>}) \cup {TextNullBlock})

RuleNext ==
    \E files \in DiskStates :
        \E outcome \in IF files = {} THEN {Failed} ELSE RuleOutcomes :
            \E cliAvailable \in BOOLEAN :
                CallValidateDocument(WsUri, files, outcome, cliAvailable)

RuleSpec == RuleInit /\ [][RuleNext]_vars

-----------------------------------------------------------------------------
(* validateFile on the same text under two file names, workspace.poly and  *)
(* a name that is none of the Polycrate file names.                        *)

ChoiceInit ==
    /\ text \in {[u \in Docs |-> lines] :
                    lines \in GenTexts(MaxRuleBlocks, Headers, {<<>>}) \cup {TextUnclosed}}
    /\ version = [u \in Docs |-> 1]
    /\ isOpen = [u \in Docs |-> TRUE]
    /\ tasks = <<>>
    /\ collection = [u \in Docs |-> <<>>]
    /\ call = [u \in Docs |-> NoCall]

\* Both files are validated under the same disk and CLI answers
ChoiceNext ==
    \E uri \in Docs : \E files \in DiskStates :
        \E outcome \in IF files = {} THEN {Failed} ELSE FileOutcomes :
            \E cliAvailable \in BOOLEAN :
                /\ \A other \in Docs :
                       call[other].fn = "validateDocument" =>
                           /\ call[other].files = files
                           /\ call[other].outcome = outcome
                           /\ call[other].cliAvailable = cliAvailable
                /\ CallValidateDocument(uri, files, outcome, cliAvailable)

ChoiceSpec == ChoiceInit /\ [][ChoiceNext]_vars

-----------------------------------------------------------------------------
(* The checks of a `from` value, on values made of a few parts.            *)

MaxFromParts == 3   \* parts of a generated `from` value

FromParts == {<<"x">>, Colon, <<"@">>, <<"l", "a", "t", "e", "s", "t">>, <<"1">>}

RECURSIVE Concat(_)
Concat(parts) == IF parts = <<>> THEN <<>> ELSE Head(parts) \o Concat(Tail(parts))

\* The non-empty strings the checks are given
GenFroms == {Concat(parts) : parts \in UNION {[1..n -> FromParts] : n \in 1..MaxFromParts}}

FromInit == FnInitOn({TextGood})

CallFromWarnings(uri, from) ==
    /\ call[uri] = NoCall
    /\ Returned(uri, [fn |-> "FromWarnings", from |-> from,
                      result |-> FromWarnings(Alpha, from, ZeroRange)])

FromNext == \E from \in GenFroms : CallFromWarnings(WsUri, from)

FromSpec == FromInit /\ [][FromNext]_vars

-----------------------------------------------------------------------------
(* validateWorkspaceSnapshot on snapshots of every shape of block and      *)
(* action.                                                                 *)

MaxSnapBlocks == 1   \* blocks of a generated snapshot

BogusKind == <<"b", "o", "g", "u", "s">>

\* An object with the given fields, the undefined ones left out
ObjOf(fields) == Obj([k \in {x \in DOMAIN fields : fields[x] # Undefined} |-> fields[k]])

\* The actions of a snapshot's block: with and without a name, a script and
\* a playbook
SnapActions ==
    {ObjOf(Fields2(NameKey, name, ScriptKey, script) @@ (PlaybookKey :> playbook)) :
        name \in {Str(Al), Undefined},
        script \in {Str(Al), Undefined},
        playbook \in {Str(Al), Undefined}}

\* The blocks of a snapshot: named or with an empty name, of a kind of the
\* enumeration or another one, with one action or without actions
SnapBlocks ==
    {ObjOf(Fields2(NameKey, name, KindKey, kind) @@ (ActionsKey :> actions)) :
        name \in {Str(Alpha), Str(<<>>)},
        kind \in {Str(<<"g", "e", "n", "e", "r", "i", "c">>), Str(BogusKind)},
        actions \in {Undefined} \cup {Arr(<<action>>) : action \in SnapActions}}

GenSnapshots ==
    {SnapWorkspace(name, organization, blocks) :
        name \in {Str(Demo), Undefined},
        organization \in {Str(Acme), Undefined},
        blocks \in UNION {[1..n -> SnapBlocks] : n \in 0..MaxSnapBlocks}}

SnapInit == FnInitOn({TextGood, TextNoOrg})

SnapNext == \E snapshot \in GenSnapshots : CallValidateWorkspaceSnapshot(WsUri, snapshot)

SnapSpec == SnapInit /\ [][SnapNext]_vars

-----------------------------------------------------------------------------
(* The hover provider's scan for the block and config section a position   *)
(* lies in.                                                                *)

\* The scan's variables before the first line; currentBlockName is <<>>
\* for null and <<name>> for a string
ScopeStart ==
    [currentBlockName |-> <<>>, isInConfig |-> FALSE, blockIndent |-> -1, configIndent |-> -1]

\* trimmedLine.match(/- name:\s*(.+)/)[1] on a trimmed line that starts
\* with '- name:': <<>> when the pattern does not match
NameMatch(trimmedLine) == trimStart(SubSeq(trimmedLine, Len(DashName) + 1, Len(trimmedLine)))

\* .replace(/['"]/g, '')
StripQuotes(s) == SelectSeq(s, LAMBDA c : c \notin Quotes)

\* A block name that is a non-empty string
HasBlock(st) == st.currentBlockName # <<>> /\ st.currentBlockName[1] # <<>>

\* A scan that opens the config section at any indent
ScopeStepAnyIndent(st, line) ==
    LET trimmedLine == trim(line)
        lineIndent == lineIndentOf(line)
    IN  IF startsWith(trimmedLine, DashName)
        THEN IF NameMatch(trimmedLine) # <<>>
             THEN [currentBlockName |-> <<StripQuotes(NameMatch(trimmedLine))>>,
                   isInConfig |-> FALSE, blockIndent |-> lineIndent, configIndent |-> -1]
             ELSE st
        ELSE IF HasBlock(st) /\ trimmedLine = ConfigKey \o Colon
        THEN [st EXCEPT !.isInConfig = TRUE, !.configIndent = lineIndent]
        ELSE IF st.isInConfig /\ lineIndent <= st.configIndent /\ trimmedLine # <<>>
        THEN [st EXCEPT !.isInConfig = FALSE]
        ELSE IF HasBlock(st) /\ lineIndent <= st.blockIndent /\ trimmedLine # <<>>
        THEN [st EXCEPT !.currentBlockName = <<>>, !.isInConfig = FALSE]
        ELSE st

\* A line that closes nothing, whatever it holds
AnyLine(trimmedLine) == TRUE

\* trimmedLine !== ''
NonBlank(trimmedLine) == trimmedLine # <<>>

\* One iteration of the loop of getBlockContextAtPosition
ScopeStep(st, line) ==
    LET trimmedLine == trim(line)
        lineIndent == lineIndentOf(line)
    IN  IF startsWith(trimmedLine, DashName)
        THEN IF NameMatch(trimmedLine) # <<>>
             THEN [currentBlockName |-> <<StripQuotes(NameMatch(trimmedLine))>>,
                   isInConfig |-> FALSE, blockIndent |-> lineIndent, configIndent |-> -1]
             ELSE st
        ELSE IF HasBlock(st) /\ trimmedLine = ConfigKey \o Colon /\ lineIndent > st.blockIndent
        THEN [st EXCEPT !.isInConfig = TRUE, !.configIndent = lineIndent]
        ELSE IF st.isInConfig /\ lineIndent <= st.configIndent /\ NonBlank(trimmedLine)
        THEN [st EXCEPT !.isInConfig = FALSE]
        ELSE IF HasBlock(st) /\ lineIndent <= st.blockIndent /\ NonBlank(trimmedLine)
        THEN [st EXCEPT !.currentBlockName = <<>>, !.isInConfig = FALSE]
        ELSE st

\* The loop over the lines 0..line (here i runs from 1)
RECURSIVE ScopeScan(_, _, _, _)
ScopeScan(lines, line, st, i) ==
    IF i > line + 1 THEN st ELSE ScopeScan(lines, line, ScopeStep(st, lines[i]), i + 1)

\* getBlockContextAtPosition(document, position): <<>> for null
getBlockContextAtPosition(lines, line) ==
    LET st == ScopeScan(lines, line, ScopeStart, 1)
    IN  IF HasBlock(st) /\ st.isInConfig
        THEN <<[blockName |-> st.currentBlockName[1], isInConfig |-> TRUE]>>
        ELSE <<>>

MaxHoverLines == 4   \* lines of a document the scan is applied to

\* The lines such a document is made of
HoverLines ==
    { KeyLine(0, BlocksKey), ItemLine(2, Alpha), KeyLine(4, ConfigKey),
      FieldLine(6, ImageKey, RegistryX), KeyLine(2, ConfigKey), <<>>, Sp(6),
      ItemLine(4, Al), Sp(2) \o DashName }

HoverTexts == UNION {[1..n -> HoverLines] : n \in 1..MaxHoverLines}

HoverInit == FnInitOn(HoverTexts)

CallGetBlockContext(uri, line) ==
    /\ call[uri] = NoCall
    /\ Returned(uri, [fn |-> "getBlockContextAtPosition", line |-> line,
                      scope |-> ScopeScan(text[uri], line, ScopeStart, 1),
                      result |-> getBlockContextAtPosition(text[uri], line)])

HoverNext == \E line \in 0..(Len(text[WsUri]) - 1) : CallGetBlockContext(WsUri, line)

HoverSpec == HoverInit /\ [][HoverNext]_vars

-----------------------------------------------------------------------------
(* findWorkspaceRoot on directories of a chain below the filesystem root.  *)

MaxDepth == 2   \* segments of the deepest directory

\* The directory n segments below the filesystem root
DirAt(n) == [i \in 1..n |-> <<"d">>]

PathDirs == {DirAt(n) : n \in 0..MaxDepth}

\* The files that may exist: the three indicators in every directory, and
\* a block file in the deepest one
PathFiles ==
    {Append(dir, file) : dir \in PathDirs, file \in WorkspaceFiles}
        \cup {Append(DirAt(MaxDepth), BlockPoly)}

PathInit == FnInitOn({TextGood})

CallFindWorkspaceRoot(uri, files, startDir) ==
    /\ call[uri] = NoCall
    /\ Returned(uri, [fn |-> "findWorkspaceRoot", files |-> files, startDir |-> startDir,
                      result |-> findWorkspaceRoot(files, startDir)])

PathNext ==
    \E files \in SUBSET PathFiles : \E startDir \in PathDirs :
        CallFindWorkspaceRoot(WsUri, files, startDir)

PathSpec == PathInit /\ [][PathNext]_vars

-----------------------------------------------------------------------------
(* The loop of findWorkspaceRoot, one iteration at a time.                 *)

\* The files that may exist: two of the indicators in every directory
WalkFiles == {Append(dir, file) : dir \in PathDirs, file \in {WorkspacePoly, DotPolycrate}}

\* findWorkspaceRoot(startDir) is called: let currentDir = startDir
StartWalk(uri, files, startDir) ==
    /\ call[uri] = NoCall
    /\ Returned(uri, [fn |-> "findWorkspaceRoot loop", files |-> files, startDir |-> startDir,
                      currentDir |-> startDir, pc |-> "loop", result |-> <<>>])

InLoop(uri) == call[uri].fn = "findWorkspaceRoot loop" /\ call[uri].pc = "loop"

\* An iteration that leaves currentDir as it is
WalkStepStay(uri) ==
    /\ InLoop(uri)
    /\ LET c == call[uri]
       IN  Returned(uri,
               IF c.currentDir = dirname(c.currentDir)
               THEN [c EXCEPT !.pc = "returned", !.result = <<>>]
               ELSE IF Append(c.currentDir, WorkspacePoly) \in c.files
                       \/ isInWorkspaceRoot(c.files, c.currentDir)
               THEN [c EXCEPT !.pc = "returned", !.result = <<c.currentDir>>]
               ELSE c)

\* The loop test and one iteration of the loop: return null when currentDir
\* is its own parent, return currentDir when it holds an indicator, go to
\* the parent otherwise
WalkStep(uri) ==
    /\ InLoop(uri)
    /\ LET c == call[uri]
       IN  Returned(uri,
               IF c.currentDir = dirname(c.currentDir)
               THEN [c EXCEPT !.pc = "returned", !.result = <<>>]
               ELSE IF Append(c.currentDir, WorkspacePoly) \in c.files
                       \/ isInWorkspaceRoot(c.files, c.currentDir)
               THEN [c EXCEPT !.pc = "returned", !.result = <<c.currentDir>>]
               ELSE [c EXCEPT !.currentDir = dirname(c.currentDir)])

WalkInit == FnInitOn({TextGood})

WalkNext ==
    \/ \E files \in SUBSET WalkFiles : \E startDir \in PathDirs : StartWalk(WsUri, files, startDir)
    \/ WalkStep(WsUri)

\* The loop runs on: nothing outside it is awaited
WalkSpec == WalkInit /\ [][WalkNext]_vars /\ WF_vars(WalkStep(WsUri))

-----------------------------------------------------------------------------
(* The hub provider adding a block of the hub to the workspace file.       *)

DescriptionKey == <<"d", "e", "s", "c", "r", "i", "p", "t", "i", "o", "n">>
HubRegistry == <<"h", "u", "b", ".", "p", "o", "l", "y", "c", "r", "a", "t", "e", ".", "i", "o">>
Latest == <<"l", "a", "t", "e", "s", "t">>
Generic == <<"g", "e", "n", "e", "r", "i", "c">>

\* a || b on strings, <<>> for a missing or empty one
OrDefault(a, b) == IF a # <<>> THEN a ELSE b

\* generateBlockEntry(block): the string as its pieces between the '\n's,
\* the first and the last of them empty
generateBlockEntry(block) ==
    << <<>>,
       Sp(2) \o DashName \o <<" ">> \o block.name,
       FieldLine(4, KindKey, OrDefault(block.kind, Generic)),
       FieldLine(4, FromKey, <<"\"">> \o OrDefault(block.registry, HubRegistry) \o <<"/">>
                                 \o block.name \o Colon
                                 \o OrDefault(block.version, Latest) \o <<"\"">>) >>
        \o (IF block.description # <<>>
            THEN <<FieldLine(4, DescriptionKey, <<"\"">> \o block.description \o <<"\"">>)>>
            ELSE <<>>)
        \o << <<>> >>

Position(line, character) == [line |-> line, character |-> character]

\* The inner loop of findBlocksInsertPosition from line j on (0-based)
RECURSIVE BlocksEnd(_, _)
BlocksEnd(lines, j) ==
    IF j >= Len(lines) THEN Position(Len(lines), 0)
    ELSE IF trim(lines[j + 1]) = <<>> \/ ~startsWith(lines[j + 1], Sp(2))
    THEN Position(j, 0)
    ELSE BlocksEnd(lines, j + 1)

\* findBlocksInsertPosition(document), from line i on (0-based)
RECURSIVE findBlocksInsertPosition(_, _)
findBlocksInsertPosition(lines, i) ==
    IF i >= Len(lines) THEN Position(Len(lines), 0)
    ELSE IF trim(lines[i + 1]) = KeyLine(0, BlocksKey) THEN BlocksEnd(lines, i + 1)
    ELSE findBlocksInsertPosition(lines, i + 1)

\* The editor's document after WorkspaceEdit.insert(position, pieces): a
\* position past the last line is moved to the end of the last line
InsertText(lines, position, pieces) ==
    LET at == IF position.line >= Len(lines)
              THEN Position(Len(lines) - 1, Len(lines[Len(lines)]))
              ELSE position
        line == lines[at.line + 1]
        pre == SubSeq(line, 1, at.character)
        post == SubSeq(line, at.character + 1, Len(line))
    IN  SubSeq(lines, 1, at.line)
            \o <<pre \o pieces[1]>>
            \o SubSeq(pieces, 2, Len(pieces) - 1)
            \o <<pieces[Len(pieces)] \o post>>
            \o SubSeq(lines, at.line + 2, Len(lines))

MaxHubBlocks == 2   \* block entries of a workspace file a hub block is added to

\* The blocks of the hub that are added
HubBlocks ==
    [name : {Al, Beta}, kind : {<<>>}, registry : {<<>>},
     version : {<<>>, <<"1", ".", "0">>}, description : {<<>>, Demo}]

\* The `blocks:` section of a workspace file: none, or the key with its
\* entries, with or without an empty line between the entries
HubSections ==
    {<<>>}
        \cup {<<KeyLine(0, BlocksKey)>> \o BlockLines([i \in 1..n |-> [name |-> Alpha, from |-> RegistryZPinned]]) :
                 n \in 0..MaxHubBlocks}
        \cup {<<KeyLine(0, BlocksKey)>> \o EntryLines([name |-> Alpha, from |-> RegistryZPinned])
                 \o << <<>> >> \o EntryLines([name |-> Alpha, from |-> RegistryX])}

\* The workspace files: the section after the name, before or without a
\* top-level key that follows, with or without a newline at the end
HubTexts ==
    {<<FieldLine(0, NameKey, Demo)>> \o section \o trailer \o last :
        section \in HubSections,
        trailer \in {<<>>, <<KeyLine(0, ConfigKey), FieldLine(2, ImageKey, RegistryX)>>},
        last \in {<<>>, << <<>> >>}}

HubInit == FnInitOn(HubTexts)

\* addBlockToWorkspace(block) with one workspace file: the entry is inserted
\* into the document
AddBlockToWorkspace(uri, block) ==
    /\ call[uri] = NoCall
    /\ LET insertPosition == findBlocksInsertPosition(text[uri], 0)
       IN  /\ text' = [text EXCEPT ![uri] =
                           InsertText(@, insertPosition, generateBlockEntry(block))]
           /\ call' = [call EXCEPT ![uri] =
                           [fn |-> "addBlockToWorkspace", block |-> block,
                            insertPosition |-> insertPosition, before |-> text[uri]]]
    /\ version' = [version EXCEPT ![uri] = @ + 1]
    /\ UNCHANGED <<isOpen, tasks, collection>>

HubNext == \E block \in HubBlocks : AddBlockToWorkspace(WsUri, block)

HubSpec == HubInit /\ [][HubNext]_vars

Next ==
    \/ \E uri \in Docs : Open(uri)
    \/ \E uri \in Docs : \E lines \in TextsOf(uri) : Edit(uri, lines)
    \/ \E uri \in Docs : Close(uri)
    \/ \E i \in DOMAIN tasks : \E outcome \in ProviderOutcomes : SnapshotDone(i, outcome)
    \/ \E i \in DOMAIN tasks : \E cliAvailable \in BOOLEAN : VersionDone(i, cliAvailable)

Spec == Init /\ [][Next]_vars

\* `workspace snapshot` ends for some task, and `version` ends for some task
SomeSnapshotDone ==
    \/ \E i \in DOMAIN tasks : SnapshotDone(i, Failed)
    \/ \E i \in DOMAIN tasks : \E outcome \in ProviderOutcomes : SnapshotDone(i, outcome)
SomeVersionDone ==
    \/ \E i \in DOMAIN tasks : VersionDone(i, TRUE)
    \/ \E i \in DOMAIN tasks : \E cliAvailable \in BOOLEAN : VersionDone(i, cliAvailable)

\* Every CLI process that was started ends, so every validation in flight
\* goes on
CliEnds == WF_vars(SomeSnapshotDone) /\ WF_vars(SomeVersionDone)

LiveSpec == Spec /\ CliEnds

-----------------------------------------------------------------------------
(* Properties of the validation provider, checked under Spec.              *)

Published(uri) == call[uri].fn = "validateDocument"

\* C1: Stale-discard.  When a validation started for a revision R of a
\* document completes after the diagnostics of a later revision have been
\* published, its completion leaves the published set of the document as
\* it is.
StaleDiscard ==
    [][\A uri \in Docs :
          (Published(uri) /\ call'[uri] # call[uri] /\ call'[uri].version < call[uri].version)
              => collection'[uri] = collection[uri]]_vars

\* C2: At every moment at most one external validation call is in flight
\* per document.
AtMostOneInFlight == \A uri \in Docs : Cardinality(InFlight(uri)) <= 1

\* C3: Every diagnostic set published for a document is derived from one
\* single revision of its text: it is what validateFile returns on one of
\* the document's texts, under some answers of the CLI.
SingleRevision ==
    \A uri \in Docs :
        collection[uri] # <<>> =>
            \E lines \in TextsOf(uri) : \E outcome \in ProviderOutcomes :
                \E cliAvailable \in BOOLEAN :
                    collection[uri][1] = validateFile(DiskFiles, uri, lines, outcome, cliAvailable)

\* C4: Publishing replaces the whole diagnostic set of the document: the
\* published set of a document is exactly the set returned by the
\* validation that published last (or none, once the document was closed),
\* never that set joined with an earlier one.
PublishReplaces ==
    \A uri \in Docs :
        Published(uri) => collection[uri] \in {<<>>, <<call[uri].result>>}

\* A publish that found another, non-empty set published and replaced it
PublishReplacesWitness ==
    \E uri \in Docs :
        /\ Published(uri)
        /\ call[uri].before # <<>>
        /\ call[uri].before[1] # <<>>
        /\ call[uri].result # <<>>
        /\ call[uri].before[1] # call[uri].result
        /\ collection[uri] = <<call[uri].result>>

\* C19: No state is shared across documents.  The published set of a
\* document changes only in a step of that document itself: when it is
\* closed, or when one of its own validations publishes.  Validating,
\* publishing or closing another document leaves it as it is.
NoSharedState ==
    [][\A uri \in Docs :
          collection'[uri] # collection[uri]
              => \/ isOpen[uri] /\ ~isOpen'[uri]
                 \/ \E i \in InFlight(uri) : tasks' = RemoveAt(tasks, i)]_vars

\* One document keeps its published set while the other has been
\* validated, published and closed
NoSharedStateWitness ==
    /\ collection[NotesUri] # <<>>
    /\ Published(WsUri)
    /\ ~isOpen[WsUri]
    /\ collection[WsUri] = <<>>

\* C20: Eviction on close.  While a polycrate document is closed it has no
\* published diagnostic set, also when a validation of it was in flight at
\* the moment of closing and completes later.
EvictedOnClose ==
    \A uri \in Docs :
        (languageId(uri) = "polycrate" /\ ~isOpen[uri]) => collection[uri] = <<>>

-----------------------------------------------------------------------------
(* Properties of validateDocument run to its end, checked under FileSpec.  *)

NoDuplicates ==
    \A uri \in Docs :
        collection[uri] # <<>> =>
            \A i, j \in 1..Len(collection[uri][1]) :
                (/\ collection[uri][1][i].range = collection[uri][1][j].range
                 /\ collection[uri][1][i].message = collection[uri][1][j].message) => i = j

\* C15: The diagnostics returned by one validation are in document order:
\* sorted by the line of their range where a line was resolved, and those
\* with the zero fallback range come last.
InDocumentOrder ==
    LET c == call[WsUri]
    IN  Published(WsUri) =>
            \A i, j \in 1..Len(c.result) :
                i < j =>
                    /\ c.result[i].range = ZeroRange => c.result[j].range = ZeroRange
                    /\ (c.result[i].range # ZeroRange /\ c.result[j].range # ZeroRange)
                           => c.result[i].range.sl <= c.result[j].range.sl

-----------------------------------------------------------------------------
(* Entities of a document and their spans, as the properties below speak   *)
(* of them: an entity opens on its `- name:` line and is closed by the     *)
(* first later non-blank line that is not indented deeper than that line.  *)

NameLines(lines, blockName) ==
    {i \in 1..Len(lines) : trim(lines[i]) = DashName \o <<" ">> \o blockName}

Closes(lines, i, k) ==
    trim(lines[k]) # <<>> /\ lineIndentOf(lines[k]) <= lineIndentOf(lines[i])

SpanOf(lines, i) == {j \in i..Len(lines) : \A k \in (i + 1)..j : ~Closes(lines, i, k)}

ItemLinesOf(lines) == {i \in 1..Len(lines) : startsWith(trim(lines[i]), DashName)}

NthItemLine(lines, n) ==
    CHOOSE i \in ItemLinesOf(lines) : Cardinality({j \in ItemLinesOf(lines) : j <= i}) = n

IsVersionWarning(d) ==
    d.severity = "Warning" /\ Len(d.message) = 5 /\ d.message[3] = "' uses 'from: "

Unpinned == {from \in Froms : from # <<>> /\ from # RegistryZPinned}

\* C6: For every entity E of the document and field name f,
\* findBlockFieldInDocument(E, f) returns a range on a line inside E's own
\* span, never a line of another entity or outside every entity.
FieldInOwnSpan ==
    LET c == call[WsUri]
        lines == text[WsUri]
    IN  (/\ c.fn = "findBlockFieldInDocument"
         /\ NameLines(lines, c.blockName) # {}
         /\ c.result # <<>>)
            => \E i \in NameLines(lines, c.blockName) : c.result[1].sl + 1 \in SpanOf(lines, i)

\* The lines of the field inside the spans of the entries named blockName
FieldLinesOf(lines, blockName, fieldName) ==
    {j \in 1..Len(lines) :
        /\ startsWith(trim(lines[j]), fieldName \o Colon)
        /\ \E i \in NameLines(lines, blockName) : j \in SpanOf(lines, i)}

Least(S) == CHOOSE i \in S : \A j \in S : i <= j

\* C12: Range resolution of a (block, field) subject follows a strict
\* fallback chain: a line of the field inside the block's span if there is
\* one; otherwise the block's `- name:` line, the first one when the name
\* occurs more than once; otherwise the zero range at document start.
FallbackChain ==
    LET c == call[WsUri]
        lines == text[WsUri]
    IN  c.fn = "blockRange" =>
            IF FieldLinesOf(lines, c.blockName, c.fieldName) # {}
            THEN /\ c.result.sl = c.result.el
                 /\ c.result.sl + 1 \in FieldLinesOf(lines, c.blockName, c.fieldName)
            ELSE IF NameLines(lines, c.blockName) # {}
            THEN /\ c.result.sl = c.result.el
                 /\ c.result.sl + 1 = Least(NameLines(lines, c.blockName))
            ELSE c.result = ZeroRange

\* Documents with three entries of different names of which only the
\* second has an unpinned `from`
ThreeBlockTexts ==
    {WorkspaceText(TRUE, TRUE, entries, trailer) :
        entries \in {e \in [1..3 -> Entries] :
                        /\ Cardinality({e[k].name : k \in 1..3}) = 3
                        /\ e[2].from \in Unpinned
                        /\ e[1].from \notin Unpinned
                        /\ e[3].from \notin Unpinned},
        trailer \in Trailers}

\* C7: Per-entity independence.  For a workspace document with three block
\* entries of which only the second has an unpinned `from`, validation with
\* a snapshot yields exactly one version Warning, and its range lies in the
\* second entry.
PerEntityIndependence ==
    LET c == call[WsUri]
        lines == text[WsUri]
    IN  (c.fn = "validateWorkspaceSnapshot" /\ lines \in ThreeBlockTexts)
            => LET warnings == SelectSeq(c.result.diags, IsVersionWarning)
               IN  /\ Len(warnings) = 1
                   /\ warnings[1].range.sl + 1 \in SpanOf(lines, NthItemLine(lines, 2))
                   /\ warnings[1].range.el + 1 \in SpanOf(lines, NthItemLine(lines, 2))

\* The documents with the two entries alpha (from without a version) and
\* beta (from ending in :latest), each paired with the document that has
\* the two entries in the other order
AlphaEntry == [name |-> Alpha, from |-> RegistryX]
BetaEntry == [name |-> Beta, from |-> <<"\"">> \o RegistryYLatest \o <<"\"">>]
TwoBlockPairs ==
    {<<WorkspaceText(TRUE, TRUE, <<entries[1], entries[2]>>, trailer),
       WorkspaceText(TRUE, TRUE, <<entries[2], entries[1]>>, trailer)>> :
        entries \in {<<AlphaEntry, BetaEntry>>, <<BetaEntry, AlphaEntry>>},
        trailer \in Trailers}

\* The `from:` line of the entity (numbered from 0), and what a list of
\* diagnostics says on that line
OwnFromLine(lines, blockName) ==
    (CHOOSE j \in SpanOf(lines, The(NameLines(lines, blockName))) :
        startsWith(trim(lines[j]), FromKey \o Colon)) - 1

PerEntity(lines, diags, blockName) ==
    {[message |-> diags[k].message, severity |-> diags[k].severity,
      sc |-> diags[k].range.sc, ec |-> diags[k].range.ec] :
        k \in {k \in 1..Len(diags) :
                  /\ diags[k].range.sl = OwnFromLine(lines, blockName)
                  /\ diags[k].range.el = OwnFromLine(lines, blockName)}}

\* C8: For a document with the two entries alpha (from without version)
\* and beta (from ending in :latest) the from checks yield exactly two
\* Warnings, one on each entity's own `from:` line, and each entity gets
\* the same Warning whichever of the two entries comes first.
TwoWarnings ==
    LET c == call[WsUri]
    IN  c.fn = "validateFromFieldsInDocument" =>
            \A pair \in TwoBlockPairs :
                text[WsUri] = pair[1] =>
                    /\ Len(c.result) = 2
                    /\ \A k \in 1..2 : c.result[k].severity = "Warning"
                    /\ \A blockName \in {Alpha, Beta} :
                          /\ Cardinality(PerEntity(pair[1], c.result, blockName)) = 1
                          /\ PerEntity(pair[1], c.result, blockName)
                                = PerEntity(pair[2], validateFromFieldsInDocument(pair[2]),
                                            blockName)

\* The from checks have run on such a document that has beta first
TwoWarningsWitness ==
    /\ call[WsUri].fn = "validateFromFieldsInDocument"
    /\ \E pair \in TwoBlockPairs :
          /\ text[WsUri] = pair[1]
          /\ NameLines(pair[1], Beta) = {NthItemLine(pair[1], 1)}
    /\ Len(call[WsUri].result) = 2

\* No snapshot: no workspace root, a failed command or an empty output
NoSnapshot(c) == c.files = {} \/ ~Truthy(getWorkspaceSnapshot(c.outcome))

MissingField(field) == <<"Missing required field: ", field>>

\* C9: Fallback on oracle failure.  Whenever the CLI yields no snapshot,
\* validateFile still applies the local required-field rules: a workspace
\* document missing one of name and organization gets exactly one Error
\* for the missing field.
FallbackOnOracleFailure ==
    LET c == call[WsUri]
        lines == text[WsUri]
    IN  \A hasName, hasOrganization \in BOOLEAN :
            (/\ Published(WsUri)
             /\ NoSnapshot(c)
             /\ hasName # hasOrganization
             /\ \E entries \in UNION {[1..k -> Entries] : k \in 0..MaxFileBlocks} :
                    lines = WorkspaceText(hasName, hasOrganization, entries, <<>>))
                => \A field \in {NameKey, OrganizationKey} :
                       Cardinality({k \in 1..Len(c.result) :
                                       /\ c.result[k].severity = "Error"
                                       /\ c.result[k].message = MissingField(field)})
                           = IF (field = NameKey /\ ~hasName)
                                   \/ (field = OrganizationKey /\ ~hasOrganization)
                             THEN 1 ELSE 0

\* C10: The from checks run on every validation of a document, with or
\* without a snapshot: a document with a block whose `from` is unpinned
\* gets a version Warning.
FromChecksAlwaysRun ==
    LET c == call[WsUri]
        lines == text[WsUri]
    IN  (/\ Published(WsUri)
         /\ lines # TextUnclosed
         /\ \E i \in 1..Len(lines) : \E from \in Unpinned :
                lines[i] = FieldLine(4, FromKey, from))
            => \E k \in 1..Len(c.result) : IsVersionWarning(c.result[k])

-----------------------------------------------------------------------------
(* Properties of the rule sets, checked under RuleSpec.                    *)

HasTopLevel(lines, key) == \E i \in 1..Len(lines) : startsWith(lines[i], key \o Colon)

Count(diags, message) ==
    Cardinality({k \in 1..Len(diags) : diags[k].message = message})

\* The snapshot a run of validateDocument got: the run had a workspace root
\* and the command printed something that is not empty
SnapshotOf(c) == IF c.files = {} THEN NullValue ELSE getWorkspaceSnapshot(c.outcome)
SnapshotWorkspace(c) ==
    IF Truthy(Get(SnapshotOf(c), WorkspaceKey)) THEN Get(SnapshotOf(c), WorkspaceKey)
    ELSE SnapshotOf(c)

OrganizationMissing == <<"Workspace organization is missing">>

\* C11: Every anomaly detected during a validation yields exactly one
\* diagnostic in the returned set, also when a later step of the same rule
\* set fails.  For the anomaly both rule sets detect first: when the local
\* rules run on a document without organization, and when the snapshot
\* rules run on a snapshot without organization, the result holds exactly
\* one Error for it.
NoAnomalyDropped ==
    LET c == call[WsUri]
        lines == text[WsUri]
    IN  Published(WsUri) =>
            /\ (~c.cliAvailable /\ ~HasTopLevel(lines, OrganizationKey))
                   => Count(c.result, MissingField(OrganizationKey)) = 1
            /\ (/\ c.cliAvailable
                /\ Truthy(SnapshotOf(c))
                /\ ~Truthy(Get(SnapshotWorkspace(c), OrganizationKey)))
                   => Count(c.result, OrganizationMissing) = 1

HasUnpinnedFrom(lines) ==
    \E i \in 1..Len(lines) : \E from \in Unpinned : lines[i] = FieldLine(4, FromKey, from)

\* C14: The snapshot-derived findings and the raw-text findings are
\* concatenated and neither suppresses the other: when the CLI is there and
\* a snapshot was got, a block whose `from` is unpinned has its Warning in
\* the result, and a snapshot without organization has its Error in the
\* result.
NeitherSuppresses ==
    LET c == call[WsUri]
    IN  (Published(WsUri) /\ c.cliAvailable /\ Truthy(SnapshotOf(c))) =>
            /\ HasUnpinnedFrom(text[WsUri])
                   => \E k \in 1..Len(c.result) : IsVersionWarning(c.result[k])
            /\ ~Truthy(Get(SnapshotWorkspace(c), OrganizationKey))
                   => Count(c.result, OrganizationMissing) >= 1

\* The answers that are a failure of the oracle call: the command failed
\* (binary missing, non-zero exit), printed nothing, or printed something
\* that is no mapping
IsOracleFailure(outcome) == ~outcome.ok \/ outcome.v.t # "object"

SnapshotMessages ==
    {<<"Workspace name is missing">>, OrganizationMissing, <<"Block is missing name">>}

\* C17: Every failure mode of the oracle call is treated as "no snapshot
\* available": no snapshot-derived diagnostic is produced from it.
FailureIsNoSnapshot ==
    LET c == call[WsUri]
    IN  (Published(WsUri) /\ IsOracleFailure(c.outcome)) =>
            \A k \in 1..Len(c.result) : c.result[k].message \notin SnapshotMessages

\* C28: Diagnostics are only ever published for documents whose language
\* is `polycrate`: in every reachable state of the validation provider no
\* document of another language has an entry in the diagnostic collection.
OnlyPolycratePublished ==
    \A uri \in Docs : languageId(uri) # "polycrate" => collection[uri] = <<>>

-----------------------------------------------------------------------------
(* Liveness of the validation provider, checked under LiveSpec.            *)

\* The published set of the document is one that validateFile computes from
\* its present text, under some answer of the CLI
Fresh(uri) ==
    collection[uri] \in
        {<<validateFile(DiskFiles, uri, text[uri], outcome, cliAvailable)>> :
            outcome \in ProviderOutcomes, cliAvailable \in BOOLEAN}

\* C27: Liveness of publication.  If edits to an open polycrate document
\* stop and every started validation completes, then eventually and from
\* then on the published set of the document is the one computed from its
\* latest text.
PublicationLive ==
    <>[]((isOpen[WsUri] /\ InFlight(WsUri) = {}) => Fresh(WsUri))

-----------------------------------------------------------------------------
(* Properties of validateFile's choice of rules, checked under ChoiceSpec. *)

IsYamlDiag(d) == d.message[1] = "YAML syntax error: "

\* The diagnostics of the rules that read the CLI's snapshot
IsCliDiag(d) ==
    \/ d.message[1] \in {"Workspace name is missing", "Workspace organization is missing",
                          "Block is missing name", "Action in block '"}
    \/ /\ d.message[1] = "Block '"
       /\ d.message[Len(d.message)] \in {"' with 'latest' tag", "' without specifying a version",
                                          "' is not recognized by the workspace"}

\* The diagnostics of the local schema rules
IsSchemaDiag(d) ==
    \/ d.message[1] \in {"Missing required field: ", "Invalid kind value: ",
                          "Block at index ", "Action at index ", "Action '"}
    \/ /\ d.message[1] = "Block '"
       /\ d.message[Len(d.message)] = "' is missing required field: kind"

\* C26: In every result of validateFile the CLI-based diagnostics and the
\* local schema diagnostics are mutually exclusive: for a file named
\* workspace.poly, block.poly or .workspace with the CLI available the
\* result is YAML-syntax diagnostics plus CLI diagnostics only; in every
\* other case it is YAML-syntax diagnostics plus local schema diagnostics
\* only.
CliOrSchema ==
    \A uri \in Docs :
        LET c == call[uri]
        IN  Published(uri) =>
                \A k \in 1..Len(c.result) :
                    IF basename(uri) \in {WorkspacePoly, BlockPoly, DotWorkspace} /\ c.cliAvailable
                    THEN (IsYamlDiag(c.result[k]) \/ IsCliDiag(c.result[k]))
                            /\ ~IsSchemaDiag(c.result[k])
                    ELSE (IsYamlDiag(c.result[k]) \/ IsSchemaDiag(c.result[k]))
                            /\ ~IsCliDiag(c.result[k])

\* The same text got CLI diagnostics under the name workspace.poly and
\* schema diagnostics under the other name, both with the CLI available
CliOrSchemaWitness ==
    /\ Published(WsUri) /\ call[WsUri].cliAvailable
    /\ Published(NotesUri) /\ call[NotesUri].cliAvailable
    /\ \E k \in 1..Len(call[WsUri].result) : IsCliDiag(call[WsUri].result[k])
    /\ \E k \in 1..Len(call[NotesUri].result) : IsSchemaDiag(call[NotesUri].result[k])

-----------------------------------------------------------------------------
(* Properties of the checks of a `from` value, checked under FromSpec.     *)

HasChar(s, c) == \E i \in 1..Len(s) : s[i] = c

IsLatestWarning(d) == IsVersionWarning(d) /\ d.message[5] = "' with 'latest' tag"
IsMissingVersionWarning(d) ==
    IsVersionWarning(d) /\ d.message[5] = "' without specifying a version"

\* C25: The version-reference rule puts each string `from` value into
\* exactly one outcome: one latest-tag Warning when it contains `:latest`
\* or `@latest`; otherwise one missing-version Warning when it contains
\* neither `:` nor `@`; otherwise no Warning.  No value yields two.
OneOutcomePerFrom ==
    LET c == call[WsUri]
    IN  c.fn = "FromWarnings" =>
            /\ Len(c.result) <= 1
            /\ IF includes(c.from, ColonLatest) \/ includes(c.from, AtLatest)
               THEN Len(c.result) = 1 /\ IsLatestWarning(c.result[1])
               ELSE IF ~HasChar(c.from, ":") /\ ~HasChar(c.from, "@")
               THEN Len(c.result) = 1 /\ IsMissingVersionWarning(c.result[1])
               ELSE c.result = <<>>

\* A value with both ':' and '@latest' gets the one latest-tag Warning
OneOutcomePerFromWitness ==
    /\ call[WsUri].fn = "FromWarnings"
    /\ HasChar(call[WsUri].from, ":")
    /\ includes(call[WsUri].from, AtLatest)
    /\ Len(call[WsUri].result) = 1
    /\ IsLatestWarning(call[WsUri].result[1])

-----------------------------------------------------------------------------
(* Properties of the snapshot rules, checked under SnapSpec.               *)

SnapBlocksOf(snapshot) == Get(Get(snapshot, WorkspaceKey), BlocksKey).v

SnapActionsOf(block) ==
    IF IsArray(Get(block, ActionsKey)) THEN Get(block, ActionsKey).v ELSE <<>>

\* The places <<block, action>> of the actions of a snapshot
ActionPlaces(blocks) ==
    UNION {{<<i, a>> : a \in 1..Len(SnapActionsOf(blocks[i]))} : i \in 1..Len(blocks)}

\* What the rules are to report in a snapshot: missing top-level fields,
\* blocks with an empty name, blocks of a kind outside the enumeration,
\* actions with no name, actions with neither a script nor a playbook
Anomalies(snapshot) ==
    LET workspace == Get(snapshot, WorkspaceKey)
        blocks == SnapBlocksOf(snapshot)
        ActionAt(p) == SnapActionsOf(blocks[p[1]])[p[2]]
    IN  {<<"field", key>> : key \in {k \in {NameKey, OrganizationKey} : ~Truthy(Get(workspace, k))}}
        \cup {<<"block name", i>> : i \in {j \in 1..Len(blocks) : ~Truthy(Get(blocks[j], NameKey))}}
        \cup {<<"block kind", i>> :
                 i \in {j \in 1..Len(blocks) :
                          /\ IsString(Get(blocks[j], KindKey))
                          /\ Get(blocks[j], KindKey).v \notin ValidKinds}}
        \cup {<<"action name", p>> :
                 p \in {q \in ActionPlaces(blocks) : ~Truthy(Get(ActionAt(q), NameKey))}}
        \cup {<<"action directive", p>> :
                 p \in {q \in ActionPlaces(blocks) :
                          /\ ~Truthy(Get(ActionAt(q), ScriptKey))
                          /\ ~Truthy(Get(ActionAt(q), PlaybookKey))}}

\* C24: When a snapshot is available the snapshot-derived rules report the
\* missing top-level identity fields, every listed block with an empty
\* identity, every listed block whose kind is not of the enumeration, and
\* every action lacking an identity or lacking both a script and a
\* playbook: besides the `from` warnings there is a diagnostic for each.
SnapshotRulesReport ==
    LET c == call[WsUri]
    IN  c.fn = "validateWorkspaceSnapshot" =>
            /\ ~c.result.threw
            /\ Len(c.result.diags) - Len(validateFromFieldsInDocument(text[WsUri]))
                  >= Cardinality(Anomalies(c.snapshot))

-----------------------------------------------------------------------------
(* Properties of the hover provider's scan, checked under HoverSpec.       *)

\* The indent columns of the frames the scan has open, outermost first
OpenFrames(st) ==
    (IF HasBlock(st) THEN <<st.blockIndent>> ELSE <<>>)
        \o (IF st.isInConfig THEN <<st.configIndent>> ELSE <<>>)

\* C16: Stack-consistency.  For every document and line, the scope state
\* of the scan over the lines up to that line has strictly increasing
\* indent columns from the outermost to the innermost open frame; when the
\* config section is open, a block is open and configIndent > blockIndent.
StackConsistency ==
    LET c == call[WsUri]
    IN  c.fn = "getBlockContextAtPosition" =>
            /\ \A i, j \in 1..Len(OpenFrames(c.scope)) :
                   i < j => OpenFrames(c.scope)[i] < OpenFrames(c.scope)[j]
            /\ \A i \in 1..Len(OpenFrames(c.scope)) : OpenFrames(c.scope)[i] >= 0
            /\ c.scope.isInConfig
                   => HasBlock(c.scope) /\ c.scope.configIndent > c.scope.blockIndent

\* The scan reports the config section of a block open at a line below the
\* block's entry
StackConsistencyWitness ==
    /\ call[WsUri].fn = "getBlockContextAtPosition"
    /\ call[WsUri].result # <<>>
    /\ call[WsUri].scope.isInConfig
    /\ call[WsUri].scope.configIndent > call[WsUri].scope.blockIndent
    /\ call[WsUri].line >= 2

\* The scan's variables before the line the call asked about, and that line
ScopeBefore(c) == ScopeScan(text[WsUri], c.line - 1, ScopeStart, 1)
LineAt(c) == text[WsUri][c.line + 1]
IsHoverCall(c) == c.fn = "getBlockContextAtPosition"

\* C21: In the scope scan, after a non-blank line at an indent less than or
\* equal to the current block's indent that is not a `- name:` line, no
\* block is current any more, also when a config section of that block was
\* open on that line.
ClosesEnclosingFrames ==
    LET c == call[WsUri]
    IN  (/\ IsHoverCall(c)
         /\ HasBlock(ScopeBefore(c))
         /\ trim(LineAt(c)) # <<>>
         /\ ~startsWith(trim(LineAt(c)), DashName)
         /\ lineIndentOf(LineAt(c)) <= ScopeBefore(c).blockIndent)
            => ~HasBlock(c.scope) /\ ~c.scope.isInConfig

\* C22: Blank lines never close frames.  A line that is empty or only
\* whitespace leaves the current block name, the block indent, the
\* config-open flag and the config indent unchanged, whatever its length.
BlankKeepsFrames ==
    LET c == call[WsUri]
    IN  (IsHoverCall(c) /\ trim(LineAt(c)) = <<>>) => c.scope = ScopeBefore(c)

\* A whitespace-only line shorter than the config indent, and one longer
\* than it, are read while a config section is open
BlankKeepsFramesWitness ==
    /\ IsHoverCall(call[WsUri])
    /\ call[WsUri].line >= 3
    /\ trim(LineAt(call[WsUri])) = <<>>
    /\ Len(LineAt(call[WsUri])) > call[WsUri].scope.configIndent
    /\ text[WsUri][call[WsUri].line] = <<>>
    /\ call[WsUri].result # <<>>

\* C23: Each `- name:` line opens a new, distinct block frame.  After it
\* the current entity is the name on that line with quotes stripped, its
\* indent is that line's indent, and the config-open state of the previous
\* block is reset, so the result at that line is never one block's name
\* with another block's config section.
NameLineOpensFrame ==
    LET c == call[WsUri]
    IN  (IsHoverCall(c) /\ startsWith(trim(LineAt(c)), DashName))
            => /\ ~c.scope.isInConfig
               /\ c.result = <<>>
               /\ NameMatch(trim(LineAt(c))) # <<>>
                      => /\ c.scope.currentBlockName
                               = <<StripQuotes(NameMatch(trim(LineAt(c))))>>
                         /\ c.scope.blockIndent = lineIndentOf(LineAt(c))

-----------------------------------------------------------------------------
(* Properties of adding a hub block, checked under HubSpec.                *)

\* The lines (1-based) of the `blocks:` key at the top level of a document
BlocksKeyLines(lines) == {i \in 1..Len(lines) : lines[i] = KeyLine(0, BlocksKey)}

\* The last line of the entries under the `blocks:` key at line i: the last
\* indented, non-empty line before the next top-level key
LastEntryLine(lines, i) ==
    LET stop == Least({j \in (i + 1)..(Len(lines) + 1) :
                          j = Len(lines) + 1
                              \/ (lines[j] # <<>> /\ lineIndentOf(lines[j]) = 0)})
        inside == {j \in (i + 1)..(stop - 1) : trim(lines[j]) # <<>>}
    IN  IF inside = {} THEN i ELSE CHOOSE j \in inside : \A k \in inside : k <= j

\* The names of the entries of the `blocks:` list of a document
BlockNamesOf(lines) ==
    LET parsed == yamlParse(lines)
        blocks == Get(parsed.v, BlocksKey)
    IN  IF parsed.ok /\ IsArray(blocks)
        THEN {Get(blocks.v[i], NameKey) : i \in {k \in 1..Len(blocks.v) : ~IsNullish(blocks.v[k])}}
        ELSE {}

\* C30: Adding a hub block to a workspace document inserts the generated
\* entry so that it is a member of the `blocks:` list.  When a `blocks:`
\* section exists the insert position is directly after its last entry
\* line and before any following top-level key; when none exists one is
\* added at the end of the file with the entry under it.
AddedToBlocksList ==
    LET c == call[WsUri]
    IN  c.fn = "addBlockToWorkspace" =>
            /\ Str(c.block.name) \in BlockNamesOf(text[WsUri])
            /\ BlocksKeyLines(text[WsUri]) # {}
            /\ \A i \in BlocksKeyLines(c.before) :
                   c.insertPosition.line = LastEntryLine(c.before, i)

-----------------------------------------------------------------------------
(* Termination of findWorkspaceRoot, checked under WalkSpec.               *)

\* C29: findWorkspaceRoot terminates for every start directory.  Each
\* iteration either returns or replaces the current directory by its
\* strict parent, and the loop ends when the directory equals its own
\* parent.
WalkTerminates ==
    /\ [][InLoop(WsUri) =>
             \/ call'[WsUri].pc = "returned"
             \/ /\ call'[WsUri].currentDir = dirname(call[WsUri].currentDir)
                /\ Len(call'[WsUri].currentDir) < Len(call[WsUri].currentDir)]_vars
    /\ InLoop(WsUri) ~> (call[WsUri].fn = "findWorkspaceRoot loop" /\ call[WsUri].pc = "returned")

\* The loop went from the deepest directory up to the filesystem root and
\* ended there
WalkTerminatesWitness ==
    /\ call[WsUri].fn = "findWorkspaceRoot loop"
    /\ call[WsUri].pc = "returned"
    /\ call[WsUri].startDir = DirAt(MaxDepth)
    /\ call[WsUri].currentDir = <<>>

-----------------------------------------------------------------------------
(* Properties of findWorkspaceRoot, checked under PathSpec.                *)

\* The directory and its ancestors, the filesystem root included
AncestorsOrSelf(dir) == {SubSeq(dir, 1, n) : n \in 0..Len(dir)}

\* The directories of the chain that hold a root marker file
Marked(files, dir) ==
    {d \in AncestorsOrSelf(dir) : \E file \in WorkspaceFiles : Append(d, file) \in files}

\* C18: Root discovery.  findWorkspaceRoot(start) returns the nearest
\* directory among start and its ancestors that contains a root marker
\* file, the filesystem root included, and returns none exactly when no
\* directory of that chain contains a marker.
RootDiscovery ==
    LET c == call[WsUri]
    IN  c.fn = "findWorkspaceRoot" =>
            IF Marked(c.files, c.startDir) = {}
            THEN c.result = <<>>
            ELSE /\ c.result # <<>>
                 /\ c.result[1] \in Marked(c.files, c.startDir)
                 /\ \A d \in Marked(c.files, c.startDir) : Len(d) <= Len(c.result[1])
====
